---- MODULE Spec2Model ----
(***************************************************************************)
(* A model of tls/s2n_protocol_preferences.c: the ALPN preference list of  *)
(* s2n.  A list is a byte buffer of entries, each one length byte followed *)
(* by that many bytes.  Four operations:                                   *)
(*   s2n_protocol_preferences_read     decode one entry from a stuffer     *)
(*   s2n_protocol_preferences_contain  scan a list for a protocol          *)
(*   s2n_protocol_preferences_append   add one entry to a blob             *)
(*   s2n_protocol_preferences_set      rebuild a blob from C strings       *)
(* and the four wrappers that apply append/set to the two owners           *)
(* (config->application_protocols, conn->application_protocols_overridden).*)
(*                                                                         *)
(* Bytes are the naturals 0..255, a blob is its bytes together with its    *)
(* capacity and the identity of its allocation, a C string is a sequence   *)
(* of bytes ending with the byte 0.  The blob, stuffer and allocator       *)
(* primitives the file calls live in utils/ and stuffer/, outside the      *)
(* file; they are modelled by what the file relies on.  Allocation never   *)
(* fails in this model, and no reference argument but `protocols' is NULL. *)
(***************************************************************************)
EXTENDS Integers, Sequences, FiniteSets, TLC

VARIABLES
    app,      \* owner -> blob: config->application_protocols, conn->application_protocols_overridden
    heap,     \* the allocator: the live allocations, and whether a dead one was ever freed
    ids,      \* history: owner -> the identifiers its list was built from, in order
    stuffer,  \* the cursor over the peer's list that the Entry Reader advances
    last,     \* the last call: operation, arguments, the blob before it, result and outputs
    calls     \* the number of calls made so far

vars == <<app, heap, ids, stuffer, last, calls>>

(***************************************************************************)
(* Bounds of the model.                                                    *)
(***************************************************************************)
MaxCalls == 4        \* calls in one behaviour of Spec
MaxLimitCalls == 2   \* calls in one behaviour of SpecLimit (lists near 65535 bytes)
MaxWireLen == 5      \* length of the enumerated peer buffers of SpecWire

(***************************************************************************)
(* Program constants.                                                      *)
(***************************************************************************)
UINT16_MAX == 65535
UINT8_RANGE == 256   \* the (uint8_t) cast of line 122, the length < 256 test of line 120
CAPACITY_HINT == 8   \* protocol_count * 8, line 104

Owners == {"config", "conn"}

NULL == 0            \* the data pointer of a zeroed blob

(***************************************************************************)
(* S2N_RESULT.  An error carries the check of the source that raised it.   *)
(***************************************************************************)
S2N_RESULT_OK == [ok |-> TRUE, err |-> "S2N_RESULT_OK"]

S2N_RESULT_ERROR(e) == [ok |-> FALSE, err |-> e]

S2N_ERR_INVALID_APPLICATION_PROTOCOL == "S2N_ERR_INVALID_APPLICATION_PROTOCOL"

\* line 26: GUARD_AS_RESULT(s2n_stuffer_read_uint8(...)) with no byte left
ERR_READ_UINT8 == "s2n_stuffer_read_uint8"

\* line 27: ENSURE_GT(length, 0)
ERR_ENSURE_GT_LENGTH == "ENSURE_GT(length, 0)"

\* line 30: ENSURE_REF(data), s2n_stuffer_raw_read having returned NULL
ERR_ENSURE_REF_DATA == "ENSURE_REF(data)"

\* The error classes of the design: every failure of the Entry Reader on a
\* present buffer is TruncatedData, S2N_ERR_INVALID_APPLICATION_PROTOCOL is
\* InvalidProtocol.
TruncatedData == {ERR_READ_UINT8, ERR_ENSURE_GT_LENGTH, ERR_ENSURE_REF_DATA}

InvalidProtocol == {S2N_ERR_INVALID_APPLICATION_PROTOCOL}

(***************************************************************************)
(* Blobs and the allocator (utils/s2n_blob, utils/s2n_mem).                *)
(***************************************************************************)
\* struct s2n_blob x = { 0 }
ZeroBlob == [data |-> <<>>, allocated |-> 0, ptr |-> NULL]

EmptyHeap == [live |-> {}, bad_free |-> FALSE]

\* A fresh allocation: an address no live allocation has.
NewPtr(mem) == CHOOSE p \in 1..(Cardinality(mem.live) + 1) : p \notin mem.live

\* s2n_free: release the allocation and zero the blob; a zeroed blob frees to itself.
s2n_free(mem, b) ==
    IF b.ptr = NULL
    THEN [mem |-> mem, blob |-> ZeroBlob]
    ELSE [mem |-> [live |-> mem.live \ {b.ptr},
                   bad_free |-> mem.bad_free \/ b.ptr \notin mem.live],
          blob |-> ZeroBlob]

\* The bytes of a blob resized to `size': cut, or extended.  The extension is
\* written as zeroes; append overwrites all of it before anything reads it.
Resized(data, size) ==
    IF size <= Len(data)
    THEN SubSeq(data, 1, size)
    ELSE data \o [i \in 1..(size - Len(data)) |-> 0]

\* s2n_realloc: within the capacity only the size changes (lines 106-108);
\* beyond it the bytes move to a new allocation and the old one is released.
s2n_realloc(mem, b, size) ==
    IF size <= b.allocated
    THEN [mem |-> mem, blob |-> [b EXCEPT !.data = Resized(b.data, size)]]
    ELSE LET freed == s2n_free(mem, b)
             p == NewPtr(freed.mem)
         IN  [mem |-> [freed.mem EXCEPT !.live = @ \cup {p}],
              blob |-> [data |-> Resized(b.data, size), allocated |-> size, ptr |-> p]]

(***************************************************************************)
(* Stuffers (stuffer/s2n_stuffer): a blob with a read and a write cursor.  *)
(***************************************************************************)
s2n_stuffer_init(data) == [data |-> data, read_cursor |-> 0, write_cursor |-> 0]

s2n_stuffer_skip_write(st, n) == [st EXCEPT !.write_cursor = @ + n]

s2n_stuffer_data_available(st) == st.write_cursor - st.read_cursor

\* Overwrite Len(bytes) bytes at the write cursor and advance it.
s2n_stuffer_write_bytes(st, bytes) ==
    [st EXCEPT !.data = SubSeq(st.data, 1, st.write_cursor) \o bytes
                        \o SubSeq(st.data, st.write_cursor + Len(bytes) + 1, Len(st.data)),
               !.write_cursor = @ + Len(bytes)]

s2n_stuffer_write_uint8(st, v) == s2n_stuffer_write_bytes(st, <<v>>)

\* strlen: the number of bytes before the first 0 byte of a C string.
strlen(s) == (CHOOSE i \in 1..Len(s) : s[i] = 0 /\ \A j \in 1..(i - 1) : s[j] # 0) - 1


\* Line 113 and the pointer of line 112: the bytes of a C string before its 0 byte.
StringBytes(s) == SubSeq(s, 1, strlen(s))

\* memcmp(a, b, n) == 0
memcmp_equal(a, b, n) == \A i \in 1..n : a[i] = b[i]

\* struct s2n_blob x = { 0 }, as a view of bytes
NoProtocol == [data |-> <<>>, size |-> 0]

(***************************************************************************)
(* s2n_protocol_preferences_read, lines 20-34.                             *)
(***************************************************************************)
\* s2n_stuffer_read_uint8 (line 26): one byte at the read cursor, if there is one.
s2n_stuffer_read_uint8(st) ==
    IF s2n_stuffer_data_available(st) < 1
    THEN [ok |-> FALSE, stuffer |-> st, value |-> 0]
    ELSE [ok |-> TRUE, stuffer |-> [st EXCEPT !.read_cursor = @ + 1],
          value |-> st.data[st.read_cursor + 1]]

\* s2n_stuffer_raw_read (line 29): the place of the next n bytes, or NULL (ok
\* FALSE) and no move when fewer than n are left.
s2n_stuffer_raw_read(st, n) ==
    IF s2n_stuffer_data_available(st) < n
    THEN [ok |-> FALSE, stuffer |-> st, data |-> <<>>]
    ELSE [ok |-> TRUE, stuffer |-> [st EXCEPT !.read_cursor = @ + n],
          data |-> SubSeq(st.data, st.read_cursor + 1, st.read_cursor + n)]

\* Mutant of LengthAccepted: a length byte of 0 taken as an empty entry.
LengthAccepted_zero_allowed(length) == length >= 0

\* Line 27: ENSURE_GT(length, 0)
LengthAccepted(length) == length > 0

s2n_protocol_preferences_read(st) ==
    LET len == s2n_stuffer_read_uint8(st)
    IN  IF ~len.ok
        THEN [result |-> S2N_RESULT_ERROR(ERR_READ_UINT8),
              stuffer |-> len.stuffer, protocol |-> NoProtocol]
        ELSE IF ~LengthAccepted(len.value)
        THEN [result |-> S2N_RESULT_ERROR(ERR_ENSURE_GT_LENGTH),
              stuffer |-> len.stuffer, protocol |-> NoProtocol]
        ELSE LET raw == s2n_stuffer_raw_read(len.stuffer, len.value)
             IN  IF ~raw.ok
                 THEN [result |-> S2N_RESULT_ERROR(ERR_ENSURE_REF_DATA),
                       stuffer |-> raw.stuffer, protocol |-> NoProtocol]
                 ELSE [result |-> S2N_RESULT_OK, stuffer |-> raw.stuffer,
                       protocol |-> [data |-> raw.data, size |-> len.value]]

(***************************************************************************)
(* s2n_protocol_preferences_contain, lines 36-57.                          *)
(***************************************************************************)
\* Mutant of EntryMatches: the sizes compared with <= where == is meant, so
\* that a prefix of an entry matches.
EntryMatches_prefix(match_against, protocol) ==
    /\ protocol.size <= match_against.size
    /\ memcmp_equal(match_against.data, protocol.data, protocol.size)

\* Line 51: the sizes are equal and memcmp over protocol->size bytes is 0.
EntryMatches(match_against, protocol) ==
    /\ match_against.size = protocol.size
    /\ memcmp_equal(match_against.data, protocol.data, protocol.size)

\* Mutant of contain_loop: a failure of the Entry Reader ends the scan as
\* "not found".
RECURSIVE contain_loop_swallows(_, _)
contain_loop_swallows(st, protocol) ==
    IF ~(s2n_stuffer_data_available(st) > 0)
    THEN [result |-> S2N_RESULT_OK, contains |-> FALSE]
    ELSE LET r == s2n_protocol_preferences_read(st)
         IN  IF ~r.result.ok
             THEN [result |-> S2N_RESULT_OK, contains |-> FALSE]
             ELSE IF r.protocol.size = protocol.size
                     /\ memcmp_equal(r.protocol.data, protocol.data, protocol.size)
             THEN [result |-> S2N_RESULT_OK, contains |-> TRUE]
             ELSE contain_loop_swallows(r.stuffer, protocol)

\* The while loop of lines 47-55.
RECURSIVE contain_loop(_, _)
contain_loop(st, protocol) ==
    IF ~(s2n_stuffer_data_available(st) > 0)
    THEN [result |-> S2N_RESULT_OK, contains |-> FALSE]
    ELSE LET r == s2n_protocol_preferences_read(st)
         IN  IF ~r.result.ok
             THEN [result |-> r.result, contains |-> FALSE]
             ELSE IF EntryMatches(r.protocol, protocol)
             THEN [result |-> S2N_RESULT_OK, contains |-> TRUE]
             ELSE contain_loop(r.stuffer, protocol)

\* Lines 43-45: a stuffer over the whole list, all of it readable.
FullStuffer(data) == s2n_stuffer_skip_write(s2n_stuffer_init(data), Len(data))

s2n_protocol_preferences_contain(protocol_preferences, protocol) ==
    contain_loop(FullStuffer(protocol_preferences), protocol)

(***************************************************************************)
(* s2n_protocol_preferences_append, lines 59-84.  `protocol' is the bytes  *)
(* the pointer refers to, of which the first protocol_len are read.        *)
(***************************************************************************)
\* Mutant of AppendAccepted: the test of line 69 left out.
AppendAccepted_zero_allowed(prev_len, protocol_len) ==
    prev_len + 1 + protocol_len <= UINT16_MAX

\* Lines 69 and 71-73.  The sum is a uint32_t; no blob of the model is large
\* enough for it to wrap.
AppendAccepted(prev_len, protocol_len) ==
    /\ protocol_len # 0
    /\ prev_len + 1 + protocol_len <= UINT16_MAX

\* Mutant of WriteEntry: the length byte skipped over, not written (line 80).
WriteEntry_no_length(data, prev_len, protocol, protocol_len) ==
    LET protocol_stuffer == s2n_stuffer_skip_write(s2n_stuffer_init(data), prev_len + 1)
    IN  s2n_stuffer_write_bytes(protocol_stuffer, SubSeq(protocol, 1, protocol_len)).data

\* Mutant of WriteEntry: the skip of line 79 left out, the entry written at
\* offset 0.
WriteEntry_at_start(data, prev_len, protocol, protocol_len) ==
    LET protocol_stuffer == s2n_stuffer_init(data)
        with_len == s2n_stuffer_write_uint8(protocol_stuffer, protocol_len)
    IN  s2n_stuffer_write_bytes(with_len, SubSeq(protocol, 1, protocol_len)).data

\* Lines 77-81: the entry written at offset prev_len of the reallocated blob.
WriteEntry(data, prev_len, protocol, protocol_len) ==
    LET protocol_stuffer == s2n_stuffer_skip_write(s2n_stuffer_init(data), prev_len)
        with_len == s2n_stuffer_write_uint8(protocol_stuffer, protocol_len)
    IN  s2n_stuffer_write_bytes(with_len, SubSeq(protocol, 1, protocol_len)).data

s2n_protocol_preferences_append(mem, application_protocols, protocol, protocol_len) ==
    LET prev_len == Len(application_protocols.data)
        new_len == prev_len + 1 + protocol_len
    IN  IF ~AppendAccepted(prev_len, protocol_len)
        THEN [result |-> S2N_RESULT_ERROR(S2N_ERR_INVALID_APPLICATION_PROTOCOL),
              mem |-> mem, blob |-> application_protocols]
        ELSE LET grown == s2n_realloc(mem, application_protocols, new_len)
             IN  [result |-> S2N_RESULT_OK, mem |-> grown.mem,
                  blob |-> [grown.blob EXCEPT
                               !.data = WriteEntry(@, prev_len, protocol, protocol_len)]]

(***************************************************************************)
(* s2n_protocol_preferences_set, lines 86-138.  `protocols' is             *)
(* [null, strs]: a NULL pointer, or an array of C strings of which the     *)
(* first protocol_count are read.                                          *)
(***************************************************************************)
\* Mutant of LengthFitsUint8: the test of line 120 left out.
LengthFitsUint8_unchecked(length) == TRUE

\* Line 120: ENSURE(length < 256, ...)
LengthFitsUint8(length) == length < UINT8_RANGE

\* One pass of the body of the for loop, lines 112-122, for the string `str'.
set_step(mem, new_protocols, str) ==
    LET length == strlen(str)
    IN  IF ~LengthFitsUint8(length)
        THEN [result |-> S2N_RESULT_ERROR(S2N_ERR_INVALID_APPLICATION_PROTOCOL),
              mem |-> mem, blob |-> new_protocols]
        ELSE s2n_protocol_preferences_append(mem, new_protocols, str, length % UINT8_RANGE)

\* Mutant of set_loop: the strings taken from the last to the first.
RECURSIVE set_loop_reversed(_, _, _, _, _)
set_loop_reversed(mem, new_protocols, strs, lo, hi) ==
    IF lo > hi
    THEN [result |-> S2N_RESULT_OK, mem |-> mem, blob |-> new_protocols]
    ELSE LET step == set_step(mem, new_protocols, strs[hi])
         IN  IF ~step.result.ok
             THEN step
             ELSE set_loop_reversed(step.mem, step.blob, strs, lo, hi - 1)

\* The for loop of lines 111-123 over the indices lo..hi (1-based here): the
\* passes in order, stopping at the first that fails.  The range is run as
\* its first half and then its second, which keeps the evaluation shallow.
RECURSIVE set_loop(_, _, _, _, _)
set_loop(mem, new_protocols, strs, lo, hi) ==
    IF lo > hi
    THEN [result |-> S2N_RESULT_OK, mem |-> mem, blob |-> new_protocols]
    ELSE IF lo = hi
    THEN set_step(mem, new_protocols, strs[lo])
    ELSE LET mid == (lo + hi) \div 2
             first == set_loop(mem, new_protocols, strs, lo, mid)
         IN  IF ~first.result.ok
             THEN first
             ELSE set_loop(first.mem, first.blob, strs, mid + 1, hi)

\* Mutant of set_commit: new_protocols not zeroed (line 135 left out), so
\* that the DEFER_CLEANUP releases the blob just handed to the owner.
set_commit_no_reset(mem, application_protocols, new_protocols) ==
    [mem |-> s2n_free(mem, application_protocols).mem,
     application_protocols |-> new_protocols,
     new_protocols |-> new_protocols]

\* Lines 125-135: release the previous list, hand the new blob to the owner,
\* zero new_protocols.
set_commit(mem, application_protocols, new_protocols) ==
    [mem |-> s2n_free(mem, application_protocols).mem,
     application_protocols |-> new_protocols,
     new_protocols |-> ZeroBlob]

\* Mutant of set_build: the previous list released first and the new one
\* built in the owner's blob, with no scratch blob.
set_build_in_place(mem, application_protocols, protocols, protocol_count) ==
    LET cleared == s2n_free(mem, application_protocols)
        built == set_loop(cleared.mem, cleared.blob, protocols.strs, 1, protocol_count)
    IN  [result |-> built.result, mem |-> built.mem,
         application_protocols |-> built.blob, new_protocols |-> ZeroBlob]

\* Lines 96-137, up to but not including the DEFER_CLEANUP of new_protocols.
set_build(mem, application_protocols, protocols, protocol_count) ==
    LET hinted == s2n_realloc(mem, ZeroBlob, protocol_count * CAPACITY_HINT)
        reset == s2n_realloc(hinted.mem, hinted.blob, 0)
        built == set_loop(reset.mem, reset.blob, protocols.strs, 1, protocol_count)
    IN  IF ~built.result.ok
        THEN [result |-> built.result, mem |-> built.mem,
              application_protocols |-> application_protocols,
              new_protocols |-> built.blob]
        ELSE [result |-> S2N_RESULT_OK]
             @@ set_commit(built.mem, application_protocols, built.blob)

s2n_protocol_preferences_set(mem, application_protocols, protocols, protocol_count) ==
    IF protocols.null \/ protocol_count = 0
    THEN LET freed == s2n_free(mem, application_protocols)
         IN  [result |-> S2N_RESULT_OK, mem |-> freed.mem, blob |-> freed.blob]
    ELSE LET exit == set_build(mem, application_protocols, protocols, protocol_count)
         IN  \* DEFER_CLEANUP(new_protocols, s2n_free), line 96
             [result |-> exit.result,
              mem |-> s2n_free(exit.mem, exit.new_protocols).mem,
              blob |-> exit.application_protocols]


(***************************************************************************)
(* The inputs of the model.                                                *)
(***************************************************************************)
\* The C strings "h2", "http/1.1" and "", and a string of n bytes 'a'.
STR_h2 == <<104, 50, 0>>

STR_http11 == <<104, 116, 116, 112, 47, 49, 46, 49, 0>>

STR_empty == <<0>>

StrOfLen(n) == [i \in 1..n |-> 97] \o <<0>>

Strs(strs) == [null |-> FALSE, strs |-> strs]

NullProtocols == [null |-> TRUE, strs |-> <<>>]

SetArgs(protocols, protocol_count) ==
    [protocols |-> protocols, protocol_count |-> protocol_count]

AppendArgs(protocol, protocol_len) ==
    [protocol |-> protocol, protocol_len |-> protocol_len]

\* Calls of s2n_*_set_protocol_preferences on short lists: clears, good
\* collections, and collections with an empty string first, in the middle, last.
SmallSets ==
    { SetArgs(NullProtocols, 0), SetArgs(NullProtocols, 1), SetArgs(Strs(<<STR_h2>>), 0),
      SetArgs(Strs(<<STR_h2>>), 1),
      SetArgs(Strs(<<STR_h2, STR_http11>>), 2),
      SetArgs(Strs(<<STR_http11, STR_h2>>), 2),
      SetArgs(Strs(<<STR_h2, STR_empty, STR_http11>>), 3),
      SetArgs(Strs(<<STR_empty, STR_h2>>), 2),
      SetArgs(Strs(<<STR_h2, STR_http11, STR_empty>>), 3) }

\* Calls of s2n_*_append_protocol_preference: "h2", "http/1.1", a length of 0,
\* and two bytes of which one is 0.
SmallAppends ==
    { AppendArgs(StringBytes(STR_h2), 2), AppendArgs(StringBytes(STR_http11), 8),
      AppendArgs(StringBytes(STR_h2), 0), AppendArgs(<<0, 7>>, 2) }

(***************************************************************************)
(* The calls.  Each records itself in `last'.                              *)
(***************************************************************************)
NoCall ==
    [op |-> "none", owner |-> "none", args |-> <<>>, before |-> ZeroBlob,
     result |-> S2N_RESULT_OK, contains |-> FALSE, protocol |-> NoProtocol]

\* The identifiers a collection names: what strlen sees of each string.
Identifiers(args) ==
    [i \in 1..args.protocol_count |-> StringBytes(args.protocols.strs[i])]

IsClear(args) == args.protocols.null \/ args.protocol_count = 0

\* s2n_config_set_protocol_preferences (140-143),
\* s2n_connection_set_protocol_preferences (150-153)
SetProtocolPreferences(o, args) ==
    LET r == s2n_protocol_preferences_set(heap, app[o], args.protocols, args.protocol_count)
    IN  /\ app' = [app EXCEPT ![o] = r.blob]
        /\ heap' = r.mem
        /\ ids' = [ids EXCEPT ![o] = IF ~r.result.ok THEN @
                                     ELSE IF IsClear(args) THEN <<>>
                                     ELSE Identifiers(args)]
        /\ last' = [NoCall EXCEPT !.op = "set", !.owner = o, !.args = args,
                                  !.before = app[o], !.result = r.result]
        /\ calls' = calls + 1
        /\ UNCHANGED stuffer

\* s2n_config_append_protocol_preference (145-148),
\* s2n_connection_append_protocol_preference (155-158)
AppendProtocolPreference(o, args) ==
    LET r == s2n_protocol_preferences_append(heap, app[o], args.protocol, args.protocol_len)
    IN  /\ app' = [app EXCEPT ![o] = r.blob]
        /\ heap' = r.mem
        /\ ids' = [ids EXCEPT ![o] = IF ~r.result.ok THEN @
                                     ELSE Append(@, SubSeq(args.protocol, 1, args.protocol_len))]
        /\ last' = [NoCall EXCEPT !.op = "append", !.owner = o, !.args = args,
                                  !.before = app[o], !.result = r.result]
        /\ calls' = calls + 1
        /\ UNCHANGED stuffer

\* s2n_protocol_preferences_read on the peer's stuffer
ReadEntry ==
    LET r == s2n_protocol_preferences_read(stuffer)
    IN  /\ stuffer' = r.stuffer
        /\ last' = [NoCall EXCEPT !.op = "read", !.owner = "peer", !.before = stuffer,
                                  !.result = r.result, !.protocol = r.protocol]
        /\ UNCHANGED <<app, heap, ids, calls>>

\* s2n_protocol_preferences_contain on the peer's list
Contain(target) ==
    LET r == s2n_protocol_preferences_contain(stuffer.data, target)
    IN  /\ last' = [NoCall EXCEPT !.op = "contain", !.owner = "peer", !.args = target,
                                  !.before = stuffer, !.result = r.result,
                                  !.contains = r.contains]
        /\ UNCHANGED <<app, heap, ids, stuffer, calls>>

(***************************************************************************)
(* Spec: the two owners from their construction, short lists.              *)
(***************************************************************************)
Init ==
    /\ app = [o \in Owners |-> ZeroBlob]
    /\ heap = EmptyHeap
    /\ ids = [o \in Owners |-> <<>>]
    /\ stuffer = FullStuffer(<<>>)
    /\ last = NoCall
    /\ calls = 0

Next ==
    \/ \E o \in Owners, args \in SmallSets :
          calls < MaxCalls /\ SetProtocolPreferences(o, args)
    \/ \E o \in Owners, args \in SmallAppends :
          calls < MaxCalls /\ AppendProtocolPreference(o, args)

Spec == Init /\ [][Next]_vars

(***************************************************************************)
(* SpecLimit: the config's list at the limits of the format: identifiers   *)
(* of 254 to 257 bytes, lists of 65535 and 65536 bytes.                    *)
(***************************************************************************)
\* n strings of 255 bytes, followed by the strings of `more'
Bulk(n, more) == Strs([i \in 1..n |-> StrOfLen(255)] \o more)

LimitStarts ==
    { SetArgs(Bulk(254, <<>>), 254),                  \* 65024 bytes
      SetArgs(Bulk(254, <<StrOfLen(253)>>), 255),     \* 65278
      SetArgs(Bulk(254, <<StrOfLen(254)>>), 255),     \* 65279
      SetArgs(Bulk(255, <<>>), 255),                  \* 65280
      SetArgs(Bulk(255, <<StrOfLen(253)>>), 256),     \* 65534
      SetArgs(Bulk(255, <<StrOfLen(254)>>), 256) }    \* 65535

LimitSets ==
    { SetArgs(Strs(<<StrOfLen(255)>>), 1),
      SetArgs(Strs(<<StrOfLen(256)>>), 1),
      SetArgs(Strs(<<StrOfLen(257)>>), 1),
      SetArgs(Strs(<<STR_h2, StrOfLen(256)>>), 2),
      SetArgs(Bulk(256, <<>>), 256) }                 \* 65536 bytes

\* Short collections with an empty string in each position, and a clear.
LimitSmallSets ==
    { SetArgs(NullProtocols, 0),
      SetArgs(Strs(<<STR_h2, STR_http11>>), 2),
      SetArgs(Strs(<<STR_h2, STR_empty, STR_http11>>), 3),
      SetArgs(Strs(<<STR_empty, STR_h2>>), 2),
      SetArgs(Strs(<<STR_h2, STR_http11, STR_empty>>), 3) }

LimitAppends ==
    { AppendArgs(StringBytes(StrOfLen(255)), 255),
      AppendArgs(StringBytes(StrOfLen(254)), 254),
      AppendArgs(StringBytes(StrOfLen(255)), 0),
      AppendArgs(StringBytes(STR_h2), 2) }

\* A list near 65535 bytes is built by the first call of a behaviour.
NextLimit ==
    \/ \E args \in LimitAppends :
          calls < MaxLimitCalls /\ AppendProtocolPreference("config", args)
    \/ \E args \in LimitSmallSets \cup LimitSets :
          calls < MaxLimitCalls /\ SetProtocolPreferences("config", args)
    \/ \E args \in LimitStarts :
          calls = 0 /\ calls < MaxLimitCalls /\ SetProtocolPreferences("config", args)

SpecLimit == Init /\ [][NextLimit]_vars

(***************************************************************************)
(* SpecWire: the Entry Reader and the Membership Matcher on a peer's       *)
(* buffer, which may be any bytes.                                         *)
(***************************************************************************)
WireBytes == {0, 1, 2, 3}

\* A peer's list of "h2" and "http/1.1", and one whose entry declares 5
\* bytes and holds 4.
WIRE_h2_http11 == <<2, 104, 50, 8, 104, 116, 116, 112, 47, 49, 46, 49>>

WIRE_truncated == <<5, 104, 116, 116, 112>>

WireBuffers ==
    UNION { [1..n -> WireBytes] : n \in 0..MaxWireLen }
        \cup {WIRE_h2_http11, WIRE_truncated}

Target(bytes) == [data |-> bytes, size |-> Len(bytes)]

\* "", short byte strings, "h2", "h3", "http/1.1", "h", "http/1"
WireTargets ==
    { Target(b) : b \in { <<>>, <<1>>, <<2>>, <<1, 2>>, <<1, 2, 3>>, <<104, 50>>, <<104, 51>>,
                          <<104, 116, 116, 112, 47, 49, 46, 49>>, <<104>>,
                          <<104, 116, 116, 112, 47, 49>> } }

InitWire ==
    /\ app = [o \in Owners |-> ZeroBlob]
    /\ heap = EmptyHeap
    /\ ids = [o \in Owners |-> <<>>]
    /\ \E buf \in WireBuffers : stuffer = FullStuffer(buf)
    /\ last = NoCall
    /\ calls = 0

NextWire ==
    \/ ReadEntry
    \/ \E target \in WireTargets : Contain(target)

SpecWire == InitWire /\ [][NextWire]_vars

(***************************************************************************)
(* The wire format, stated apart from the code: the encoding of a sequence *)
(* of identifiers, and the entries of a buffer.                            *)
(***************************************************************************)
\* The entries lo..hi of a sequence of identifiers, each as its length byte
\* and its bytes.
RECURSIVE EncodeRange(_, _, _)
EncodeRange(es, lo, hi) ==
    IF lo > hi THEN <<>>
    ELSE IF lo = hi THEN <<Len(es[lo])>> \o es[lo]
    ELSE EncodeRange(es, lo, (lo + hi) \div 2) \o EncodeRange(es, (lo + hi) \div 2 + 1, hi)

Encode(es) == EncodeRange(es, 1, Len(es))

\* The bytes the strings lo..hi of a collection take once encoded.
RECURSIVE EncodedSize(_, _, _)
EncodedSize(strs, lo, hi) ==
    IF lo > hi THEN 0
    ELSE IF lo = hi THEN 1 + strlen(strs[lo])
    ELSE EncodedSize(strs, lo, (lo + hi) \div 2) + EncodedSize(strs, (lo + hi) \div 2 + 1, hi)

\* The entries of a buffer, read from its start: the identifiers up to the
\* first malformed entry, and whether the whole buffer is entries.
RECURSIVE EntriesOf(_)
EntriesOf(data) ==
    IF data = <<>>
    THEN [well_formed |-> TRUE, entries |-> <<>>]
    ELSE IF Head(data) = 0 \/ Head(data) > Len(data) - 1
    THEN [well_formed |-> FALSE, entries |-> <<>>]
    ELSE LET rest == EntriesOf(SubSeq(data, Head(data) + 2, Len(data)))
         IN  [well_formed |-> rest.well_formed,
              entries |-> <<SubSeq(data, 2, Head(data) + 1)>> \o rest.entries]

\* The Entry Reader invoked from a cursor until no byte is left or it fails:
\* the identifiers it yielded, its last result and the cursor it left.
RECURSIVE ReadAll(_)
ReadAll(st) ==
    IF s2n_stuffer_data_available(st) = 0
    THEN [result |-> S2N_RESULT_OK, entries |-> <<>>, stuffer |-> st]
    ELSE LET r == s2n_protocol_preferences_read(st)
         IN  IF ~r.result.ok
             THEN [result |-> r.result, entries |-> <<>>, stuffer |-> r.stuffer]
             ELSE LET rest == ReadAll(r.stuffer)
                  IN  [rest EXCEPT !.entries = <<r.protocol.data>> \o @]

IsMember(bytes, entries) == \E i \in 1..Len(entries) : entries[i] = bytes

\* A collection has a candidate that is empty or of 256 bytes or more, or
\* encodes to more than 65535 bytes.
HasBadCandidate(args) ==
    \/ \E i \in 1..args.protocol_count :
          strlen(args.protocols.strs[i]) = 0 \/ strlen(args.protocols.strs[i]) >= 256
    \/ EncodedSize(args.protocols.strs, 1, args.protocol_count) > 65535

FailedSet == last.op = "set" /\ ~IsClear(last.args) /\ ~last.result.ok

(***************************************************************************)
(* The claims.                                                             *)
(***************************************************************************)
\* C1: a set call on a non-empty collection with a candidate that is empty,
\* or of 256 bytes or more, or that takes the encoding over 65535 bytes,
\* fails with InvalidProtocol and leaves the owner's blob as it was, wherever
\* the candidate stands in the collection.
C1_SetAllOrNothing ==
    (last.op = "set" /\ ~IsClear(last.args) /\ HasBadCandidate(last.args))
        => /\ ~last.result.ok
           /\ last.result.err \in InvalidProtocol
           /\ app[last.owner] = last.before

\* A set call that failed on a later candidate, the first being good, over a
\* list the owner already held.
C1_Witness ==
    /\ FailedSet
    /\ HasBadCandidate(last.args)
    /\ strlen(last.args.protocols.strs[1]) \in 1..255
    /\ Len(last.before.data) > 0
    /\ app[last.owner].data = last.before.data

\* C2: with a byte available, the Entry Reader fails with TruncatedData when
\* the length byte L is 0 or fewer than L bytes follow it; otherwise it
\* succeeds, yields the L bytes after the length byte and moves the cursor
\* by 1 + L.
C2_ReadEntry ==
    (last.op = "read" /\ s2n_stuffer_data_available(last.before) >= 1)
        => LET at == last.before.read_cursor
               L == last.before.data[at + 1]
               remain == s2n_stuffer_data_available(last.before) - 1
           IN  IF L = 0 \/ remain < L
               THEN ~last.result.ok /\ last.result.err \in TruncatedData
               ELSE /\ last.result.ok
                    /\ last.protocol.size = L
                    /\ last.protocol.data = SubSeq(last.before.data, at + 2, at + 1 + L)
                    /\ stuffer.read_cursor = at + 1 + L
                    /\ stuffer.data = last.before.data

\* The read of an entry that declares 5 bytes where 4 follow.
C2_Witness ==
    /\ last.op = "read"
    /\ last.before.data = WIRE_truncated
    /\ last.before.read_cursor = 0
    /\ ~last.result.ok

\* C3: a scan that meets, before any match, an entry whose length byte is 0
\* or exceeds the bytes left returns the Entry Reader's error with contains
\* false; a success with contains false means the whole buffer is entries,
\* none of them the target.
C3_ContainPropagates ==
    last.op = "contain"
        => LET buf == EntriesOf(last.before.data)
               decoded == ReadAll(FullStuffer(last.before.data))
           IN  /\ (~buf.well_formed /\ ~IsMember(last.args.data, buf.entries))
                     => /\ ~last.result.ok
                        /\ last.result = decoded.result
                        /\ last.result.err \in TruncatedData
                        /\ ~last.contains
               /\ (last.result.ok /\ ~last.contains)
                     => buf.well_formed /\ ~IsMember(last.args.data, buf.entries)

\* A scan that failed on a malformed entry after a well-formed one.
C3_Witness ==
    /\ last.op = "contain"
    /\ ~last.result.ok
    /\ ~last.contains
    /\ Len(EntriesOf(last.before.data).entries) >= 1

\* C4: on a well-formed list the Membership Matcher succeeds, and contains is
\* true exactly when an entry has the target's length and bytes: not for a
\* proper prefix or extension of an entry, an empty target or an empty list;
\* the list is left as it was.
C4_ContainExact ==
    (last.op = "contain" /\ EntriesOf(last.before.data).well_formed)
        => /\ last.result.ok
           /\ last.contains <=> IsMember(last.args.data, EntriesOf(last.before.data).entries)
           /\ (last.args.size = 0 \/ last.before.data = <<>>) => ~last.contains
           /\ stuffer = last.before

\* A scan of a well-formed list for a proper prefix of one of its entries.
C4_Witness ==
    /\ last.op = "contain"
    /\ EntriesOf(last.before.data).well_formed
    /\ last.result.ok /\ ~last.contains
    /\ \E i \in 1..Len(EntriesOf(last.before.data).entries) :
          LET e == EntriesOf(last.before.data).entries[i]
          IN  /\ last.args.size >= 1
              /\ last.args.size < Len(e)
              /\ SubSeq(e, 1, last.args.size) = last.args.data

\* C5: an append to a blob of S bytes of a candidate of n bytes fails, with
\* InvalidProtocol, exactly when n = 0 or S + 1 + n > 65535, and then leaves
\* the blob as it was; a candidate (n > 0) with S + 1 + n = 65535 is
\* accepted, one with S + 1 + n = 65536 rejected.
C5_AppendValidates ==
    last.op = "append"
        => LET S == Len(last.before.data)
               n == last.args.protocol_len
           IN  /\ ~last.result.ok <=> (n = 0 \/ S + 1 + n > 65535)
               /\ ~last.result.ok
                     => last.result.err \in InvalidProtocol /\ app[last.owner] = last.before
               /\ (n # 0 /\ S + 1 + n = 65535) => last.result.ok
               /\ S + 1 + n = 65536 => ~last.result.ok

\* An append that filled the list to exactly 65535 bytes.
C5_Witness ==
    /\ last.op = "append"
    /\ last.result.ok
    /\ Len(last.before.data) + 1 + last.args.protocol_len = 65535
    /\ Len(app[last.owner].data) = 65535

\* C6: a set call fails with InvalidProtocol on a candidate of 256 bytes or
\* more and stores nothing of it; it accepts candidates of 1 to 255 bytes, a
\* single candidate of 255 bytes giving a list of 256 bytes whose first byte
\* is 255; what a successful call stores is the encoding of the candidates,
\* each under its full length.
C6_SetLengthBoundary ==
    (last.op = "set" /\ ~IsClear(last.args))
        => LET strs == last.args.protocols.strs
               count == last.args.protocol_count
               stored == app[last.owner].data
           IN  /\ (\E i \in 1..count : strlen(strs[i]) >= 256)
                     => /\ ~last.result.ok
                        /\ last.result.err \in InvalidProtocol
                        /\ app[last.owner] = last.before
               /\ ((\A i \in 1..count : strlen(strs[i]) \in 1..255)
                      /\ EncodedSize(strs, 1, count) <= 65535)
                     => last.result.ok
               /\ last.result.ok => stored = Encode(Identifiers(last.args))
               /\ (count = 1 /\ strlen(strs[1]) = 255)
                     => last.result.ok /\ Len(stored) = 256 /\ stored[1] = 255

\* A set call that stored one identifier of 255 bytes.
C6_Witness ==
    /\ last.op = "set"
    /\ last.args = SetArgs(Strs(<<StrOfLen(255)>>), 1)
    /\ last.result.ok
    /\ Len(app[last.owner].data) = 256
    /\ app[last.owner].data[1] = 255

\* C7: the Entry Reader invoked repeatedly from the start of an owner's list
\* yields the identifiers the list was built from (by a set call, by appends)
\* byte for byte and in order, and ends at the end of the buffer.
C7_RoundTrip ==
    \A o \in Owners :
        LET decoded == ReadAll(FullStuffer(app[o].data))
        IN  /\ decoded.result.ok
            /\ decoded.entries = ids[o]
            /\ decoded.stuffer.read_cursor = Len(app[o].data)
            /\ s2n_stuffer_data_available(decoded.stuffer) = 0

\* A list of three identifiers, not all the same, the last of them appended.
C7_Witness ==
    /\ last.op = "append"
    /\ last.result.ok
    /\ Len(ids[last.owner]) = 3
    /\ ids[last.owner][1] # ids[last.owner][2]
    /\ ReadAll(FullStuffer(app[last.owner].data)).entries = ids[last.owner]

\* C8: a successful append of n bytes to a blob of S bytes gives S + 1 + n
\* bytes: the S bytes as they were, the byte n, the candidate; "http/1.1"
\* appended to the list of "h2" gives 02 68 32 08 68 74 74 70 2F 31 2E 31.
C8_AppendGrowsAtEnd ==
    (last.op = "append" /\ last.result.ok)
        => LET S == Len(last.before.data)
               n == last.args.protocol_len
               data == app[last.owner].data
           IN  /\ Len(data) = S + 1 + n
               /\ SubSeq(data, 1, S) = last.before.data
               /\ data[S + 1] = n
               /\ SubSeq(data, S + 2, S + 1 + n) = SubSeq(last.args.protocol, 1, n)
               /\ (last.before.data = <<2, 104, 50>>
                      /\ last.args = AppendArgs(StringBytes(STR_http11), 8))
                     => data = WIRE_h2_http11

\* "http/1.1" appended to a list that two appends built from nothing.
C8_Witness ==
    /\ last.op = "append"
    /\ last.result.ok
    /\ calls = 2
    /\ last.before.data = <<2, 104, 50>>
    /\ app[last.owner].data = WIRE_h2_http11

\* C9: after any calls an owner's list is empty or entries of a length byte
\* in 1..255 and that many bytes, and is at most 65535 bytes: it is the
\* encoding of the identifiers it was built from, each of 1 to 255 bytes.
C9_WellFormedList ==
    \A o \in Owners :
        /\ Len(app[o].data) <= 65535
        /\ app[o].data = Encode(ids[o])
        /\ \A i \in 1..Len(ids[o]) : Len(ids[o][i]) \in 1..255

\* A call that failed on a list of exactly 65535 bytes.
C9_Witness ==
    /\ calls = 2
    /\ last.op = "append"
    /\ ~last.result.ok
    /\ Len(app["config"].data) = 65535

\* The allocations the owners hold.
Held == {app[o].ptr : o \in Owners} \ {NULL}

\* C10: no leak and no double ownership.  No allocation is released twice,
\* the live allocations are those the owners hold, and no two owners hold
\* the same one.  A failed set call leaves the owner its previous blob; a
\* successful one leaves it a new blob, the previous one released; a clear
\* succeeds and leaves a zeroed blob, on a zeroed blob too.
C10_Ownership ==
    /\ ~heap.bad_free
    /\ heap.live = Held
    /\ \A o1, o2 \in Owners : (o1 # o2 /\ app[o1].ptr # NULL) => app[o1].ptr # app[o2].ptr
    /\ FailedSet => app[last.owner] = last.before
    /\ (last.op = "set" /\ ~IsClear(last.args) /\ last.result.ok)
          => /\ app[last.owner].ptr # NULL
             /\ app[last.owner].ptr # last.before.ptr
             /\ last.before.ptr \notin heap.live
    /\ (last.op = "set" /\ IsClear(last.args))
          => /\ last.result.ok
             /\ app[last.owner] = ZeroBlob
             /\ last.before.ptr \notin heap.live

\* A set call that replaced a list while the other owner held one.
C10_Witness ==
    /\ last.op = "set"
    /\ ~IsClear(last.args)
    /\ last.result.ok
    /\ last.before.ptr # NULL
    /\ Cardinality(Held) = 2

====
